---- MODULE Spec2Model ----
(***************************************************************************)
(* Model of the model-manifest build-and-validate pipeline:                *)
(*   tools/validate_models.py   (type classifier, schema index, validator) *)
(*   tools/generate_manifest.py (entry extraction, manifest builder)       *)
(*                                                                         *)
(* File names are sequences of one-character strings, so that str.lower(), *)
(* Path.stem and the substring test `in` are computed, not assumed.        *)
(* Files are UTF-8 text: a load ends in OSError, JSONDecodeError or a JSON *)
(* value, the outcomes load_json distinguishes.                            *)
(***************************************************************************)
EXTENDS Integers, Sequences, FiniteSets, TLC

VARIABLES
    pc,          \* position of the running program
    model_path,  \* detect_model_type: its argument
    model_type,  \* detect_model_type: its result
    files,       \* the discovered, sorted file list
    idx,         \* number of files of the list already processed
    data,        \* load_json's result for the file processed last
    validators,  \* the schema index
    ok,          \* run_validation: passing documents
    failed,      \* run_validation: failing documents
    errors,      \* validate_model's result for the file processed last
    exitCode,    \* main's return value
    schemas,     \* models/schemas: the state of each expected schema file
    content,     \* what the file processed last holds on disk
    models,      \* build_manifest: the entries so far
    manifest,    \* build_manifest's result
    entry,       \* extract_model_entry's result
    under_root,  \* whether the models directory lies under the project root
    yielded      \* what iter_errors yielded for the file processed last

vars == <<pc, model_path, model_type, files, idx, data, validators, ok, failed,
          errors, exitCode, schemas, content, models, manifest, entry, under_root, yielded>>

----------------------------------------------------------------------------
(* Bounds *)

\* the most fragments a generated file name is made of
MaxFrags == 3
\* the most files a directory holds
MaxFiles == 2

----------------------------------------------------------------------------
(* Strings *)

None == "None"

UpperAlpha == <<"A","B","C","D","E","F","G","H","I","J","K","L","M",
                "N","O","P","Q","R","S","T","U","V","W","X","Y","Z">>
LowerAlpha == <<"a","b","c","d","e","f","g","h","i","j","k","l","m",
                "n","o","p","q","r","s","t","u","v","w","x","y","z">>

\* str.lower() on one character
LowerChar(c) ==
    IF \E k \in 1..26 : UpperAlpha[k] = c
    THEN LowerAlpha[CHOOSE k \in 1..26 : UpperAlpha[k] = c]
    ELSE c

UpperChar(c) ==
    IF \E k \in 1..26 : LowerAlpha[k] = c
    THEN UpperAlpha[CHOOSE k \in 1..26 : LowerAlpha[k] = c]
    ELSE c

\* str.lower()
Lower(s) == [k \in 1..Len(s) |-> LowerChar(s[k])]

Upper(s) == [k \in 1..Len(s) |-> UpperChar(s[k])]

\* Python's `sub in s` on strings
Contains(sub, s) ==
    \E k \in 0..(Len(s) - Len(sub)) : SubSeq(s, k + 1, k + Len(sub)) = sub

\* str.rfind("."), 0-based, -1 when there is none
RFindDot(s) ==
    IF \E k \in 1..Len(s) : s[k] = "."
    THEN (CHOOSE k \in 1..Len(s) : s[k] = "." /\ \A j \in (k+1)..Len(s) : s[j] # ".") - 1
    ELSE -1

\* pathlib's PurePath.stem of a final path component
Stem(s) ==
    LET i == RFindDot(s)
    IN  IF 0 < i /\ i < Len(s) - 1 THEN SubSeq(s, 1, i) ELSE s

S_api_contract == <<"a","p","i","_","c","o","n","t","r","a","c","t">>
S_digital_twin == <<"d","i","g","i","t","a","l","_","t","w","i","n">>
S_knowledge_graph == <<"k","n","o","w","l","e","d","g","e","_","g","r","a","p","h">>
S_master_ == <<"m","a","s","t","e","r","_">>
S_system_model == <<"s","y","s","t","e","m","_","m","o","d","e","l">>
S_master_system_model == S_master_ \o S_system_model
S_ai_ == <<"a","i","_">>
S_mani == <<"m","a","n","i">>
S_fest == <<"f","e","s","t">>
S_manifest == S_mani \o S_fest
S_ai_master_manifest == S_ai_ \o S_master_ \o S_manifest
S_schema == <<"s","c","h","e","m","a">>
S_json == <<".","j","s","o","n">>
S_us == <<"_">>
S_pump == <<"p","u","m","p">>
S_notes == <<"r","a","n","d","o","m","_","n","o","t","e","s">>
S_v2 == <<".","v","2">>

----------------------------------------------------------------------------
(* Type classifier *)

\* the mutant of detect_model_type that tests the manifest rule first
detect_model_type_manifest_first(path) ==
    LET name == Lower(Stem(path))
    IN  IF Contains(S_ai_master_manifest, name)
           \/ (Contains(S_manifest, name) /\ ~Contains(S_schema, name))
        THEN "manifest"
        ELSE IF Contains(S_api_contract, name) THEN "api_contract"
        ELSE IF Contains(S_digital_twin, name) THEN "digital_twin"
        ELSE IF Contains(S_knowledge_graph, name) THEN "knowledge_graph"
        ELSE IF Contains(S_master_system_model, name) THEN "master_system_model"
        ELSE None

\* the mutant of detect_model_type whose manifest rule forgets the schema test
detect_model_type_noschema(path) ==
    LET name == Lower(Stem(path))
    IN  IF Contains(S_api_contract, name) THEN "api_contract"
        ELSE IF Contains(S_digital_twin, name) THEN "digital_twin"
        ELSE IF Contains(S_knowledge_graph, name) THEN "knowledge_graph"
        ELSE IF Contains(S_master_system_model, name) THEN "master_system_model"
        ELSE IF Contains(S_manifest, name) THEN "manifest"
        ELSE None

detect_model_type(path) ==
    LET name == Lower(Stem(path))
    IN  IF Contains(S_api_contract, name) THEN "api_contract"
        ELSE IF Contains(S_digital_twin, name) THEN "digital_twin"
        ELSE IF Contains(S_knowledge_graph, name) THEN "knowledge_graph"
        ELSE IF Contains(S_master_system_model, name) THEN "master_system_model"
        ELSE IF Contains(S_ai_master_manifest, name)
                \/ (Contains(S_manifest, name) /\ ~Contains(S_schema, name))
             THEN "manifest"
        ELSE None

\* the pieces the generated file names are concatenated from
Fragments ==
    { S_api_contract, S_digital_twin, S_knowledge_graph, S_master_system_model,
      S_ai_ \o S_master_, S_mani, S_fest, S_schema,
      Upper(S_manifest), <<"A","p","i","_","C","o","n","t","r","a","c","t">> }

RECURSIVE Concat(_)
Concat(ss) == IF ss = <<>> THEN <<>> ELSE Head(ss) \o Concat(Tail(ss))

\* the names sorted(root.glob("*.json")) can yield: any base name, then ".json"
GlobNames ==
    { Concat(fs) \o S_json :
        fs \in UNION { [1..n -> Fragments] : n \in 0..MaxFrags } }

NoValue == "-"

\* a local that holds nothing yet
Unset == [t |-> "unset"]

\* the variables a program does not use
IdleClassifier == model_path = <<>> /\ model_type = NoValue

IdleRun ==
    /\ files = <<>>
    /\ idx = 0
    /\ data = Unset
    /\ content = Unset

IdleValidator ==
    /\ schemas = <<>>
    /\ validators = <<>>
    /\ ok = 0
    /\ failed = 0
    /\ errors = <<>>
    /\ yielded = <<>>
    /\ exitCode = NoValue

IdleBuilder ==
    /\ models = <<>>
    /\ manifest = Unset
    /\ entry = Unset
    /\ under_root = TRUE

InitClassify ==
    /\ pc = "classify"
    /\ model_path \in GlobNames
    /\ model_type = NoValue
    /\ IdleRun
    /\ IdleValidator
    /\ IdleBuilder

Classify ==
    /\ pc = "classify"
    /\ pc' = "classified"
    /\ model_type' = detect_model_type(model_path)
    /\ UNCHANGED <<model_path, files, idx, data, validators, ok, failed, errors,
                   exitCode, schemas, content, models, manifest, entry, under_root, yielded>>

NextClassify == Classify

SpecClassify == InitClassify /\ [][NextClassify]_vars

\* p occurs in s: after some a characters of s come the characters of p
HasSub(s, p) ==
    \E a \in 0..Len(s) :
        /\ a + Len(p) <= Len(s)
        /\ \A i \in 1..Len(p) : s[a + i] = p[i]

RuleTags ==
    <<"api_contract", "digital_twin", "knowledge_graph", "master_system_model", "manifest">>

\* rule k of the classifier's rule table, on a lower-cased base name
RuleMatches(k, base) ==
    CASE k = 1 -> HasSub(base, S_api_contract)
      [] k = 2 -> HasSub(base, S_digital_twin)
      [] k = 3 -> HasSub(base, S_knowledge_graph)
      [] k = 4 -> HasSub(base, S_master_system_model)
      [] k = 5 -> \/ HasSub(base, S_ai_master_manifest)
                  \/ (HasSub(base, S_manifest) /\ ~HasSub(base, S_schema))

\* the file name without its ".json", lower-cased
LowerBase(path) == Lower(SubSeq(path, 1, Len(path) - Len(S_json)))

MatchingRules(path) == { k \in 1..5 : RuleMatches(k, LowerBase(path)) }

\* the earliest rule that matches
FirstRule(path) ==
    CHOOSE k \in 1..5 :
        /\ RuleMatches(k, LowerBase(path))
        /\ \A j \in 1..(k - 1) : ~RuleMatches(j, LowerBase(path))

\* C5: detect_model_type is the ordered first-match-wins rule table on the
\* lower-cased base name (the earliest matching rule's tag, else unknown), and
\* the case of the name never changes the result.
C5_FirstMatchWins ==
    pc = "classified" =>
        /\ model_type = IF \A k \in 1..5 : ~RuleMatches(k, LowerBase(model_path))
                        THEN None
                        ELSE RuleTags[FirstRule(model_path)]
        /\ detect_model_type(Upper(model_path)) = model_type
        /\ detect_model_type(Lower(model_path)) = model_type

\* C5 witness: a name with upper-case letters that matches two rules gets the
\* earlier rule's tag.
C5_Witness ==
    /\ pc = "classified"
    /\ Cardinality(MatchingRules(model_path)) >= 2
    /\ model_path # Lower(model_path)
    /\ model_type = RuleTags[FirstRule(model_path)]
    /\ 5 \in MatchingRules(model_path)

BothManifestAndSchema(path) ==
    HasSub(LowerBase(path), S_manifest) /\ HasSub(LowerBase(path), S_schema)

\* C6 as stated: a name containing both "manifest" and "schema" classifies as
\* unknown, unless it contains "ai_master_manifest", and then as manifest.
C6_Original ==
    (pc = "classified" /\ BothManifestAndSchema(model_path)) =>
        model_type = IF HasSub(LowerBase(model_path), S_ai_master_manifest)
                     THEN "manifest" ELSE None

\* C6 amended: a name containing both "manifest" and "schema" and the substring
\* of none of the four earlier rules classifies as unknown, unless it contains
\* "ai_master_manifest", and then as manifest; a name that also matches an
\* earlier rule gets that rule's tag.
C6_Amended ==
    (pc = "classified" /\ BothManifestAndSchema(model_path)) =>
        model_type =
            IF \E k \in 1..4 : RuleMatches(k, LowerBase(model_path))
            THEN RuleTags[FirstRule(model_path)]
            ELSE IF HasSub(LowerBase(model_path), S_ai_master_manifest)
                 THEN "manifest" ELSE None

\* C6 witness: a schema file of the manifest type is unknown.
C6_Witness ==
    /\ pc = "classified"
    /\ BothManifestAndSchema(model_path)
    /\ ~HasSub(LowerBase(model_path), S_ai_master_manifest)
    /\ \A k \in 1..4 : ~RuleMatches(k, LowerBase(model_path))
    /\ model_type = None

----------------------------------------------------------------------------
(* Python values and the document loader *)

\* Python's None as a value (JSON null loads as None)
PyNone == [t |-> "none"]

\* what a path can hold on disk
Missing == [kind |-> "missing"]
Unreadable == [kind |-> "oserror"]
Malformed == [kind |-> "badjson"]
Json(v) == [kind |-> "json", value |-> v]

\* load_json of both tools: the parsed value, or None after a JSONDecodeError
\* or an OSError (a missing file is an OSError too)
load_json(c) == IF c.kind = "json" THEN c.value ELSE PyNone

\* code points of the characters in use, in increasing order
AsciiOrder ==
    <<".", "/", "0", "1", "2", "3", "4", "5", "6", "7", "8", "9", "<", ">">>
    \o UpperAlpha \o <<"_">> \o LowerAlpha

Ord(c) == CHOOSE k \in 1..Len(AsciiOrder) : AsciiOrder[k] = c

\* Python's s < t on strings
RECURSIVE StrLess(_, _)
StrLess(s, t) ==
    IF t = <<>> THEN FALSE
    ELSE IF s = <<>> THEN TRUE
    ELSE IF Head(s) = Head(t) THEN StrLess(Tail(s), Tail(t))
    ELSE Ord(Head(s)) < Ord(Head(t))

\* sorted() of a set of distinct strings
RECURSIVE SortedStrings(_)
SortedStrings(S) ==
    IF S = {} THEN <<>>
    ELSE LET m == CHOOSE x \in S : \A y \in S \ {x} : StrLess(x, y)
         IN  <<m>> \o SortedStrings(S \ {m})

\* discover_files / find_model_files: the *.json names of a directory, sorted
\* (a directory that does not exist yields the empty list, like an empty one)
discover_files(dir) == SortedStrings(dir)

----------------------------------------------------------------------------
(* Schema index and validation *)

Tags ==
    <<"api_contract", "digital_twin", "knowledge_graph", "master_system_model", "manifest">>

TagSet == { Tags[k] : k \in 1..Len(Tags) }

\* a JSON document that is (valid = TRUE) or is not a valid JSON Schema
SchemaDoc(valid) == [t |-> "schema", valid |-> valid]

\* Draft202012Validator(data): the constructor stores the schema and does not
\* check it, so it raises no SchemaError
Draft202012Validator(d) == [schema |-> d]

build_schema_index(sch) ==
    [ key \in { k \in TagSet : sch[k].kind # "missing" /\ load_json(sch[k]) # PyNone }
        |-> Draft202012Validator(load_json(sch[key])) ]

\* an element of an error's path: an object key or an array index
Key(s) == [k |-> "key", s |-> s]
Index(n) == [k |-> "idx", n |-> n]

\* Python's < on two path elements of the same kind
ElemLess(a, b) == IF a.k = "idx" THEN a.n < b.n ELSE StrLess(a.s, b.s)

\* Python's < on deques: lexicographic
RECURSIVE PathLess(_, _)
PathLess(p, q) ==
    IF q = <<>> THEN FALSE
    ELSE IF p = <<>> THEN TRUE
    ELSE IF Head(p) = Head(q) THEN PathLess(Tail(p), Tail(q))
    ELSE ElemLess(Head(p), Head(q))

\* a ValidationError: its path and its message
Err(p, m) == [path |-> p, message |-> m]

Digits == <<"0", "1", "2", "3", "4", "5", "6", "7", "8", "9">>

\* str() of a non-negative int
RECURSIVE StrOfInt(_)
StrOfInt(n) == IF n < 10 THEN <<Digits[n + 1]>> ELSE StrOfInt(n \div 10) \o <<Digits[(n % 10) + 1]>>

StrOfElem(e) == IF e.k = "idx" THEN StrOfInt(e.n) ELSE e.s

\* "/".join(str(p) for p in path)
RECURSIVE JoinPath(_)
JoinPath(p) ==
    IF p = <<>> THEN <<>>
    ELSE IF Len(p) = 1 THEN StrOfElem(p[1])
    ELSE StrOfElem(p[1]) \o <<"/">> \o JoinPath(Tail(p))

S_root == <<"<", "r", "o", "o", "t", ">">>

\* "/".join(...) or "<root>"
Location(p) == IF JoinPath(p) = <<>> THEN S_root ELSE JoinPath(p)

\* the mutant of SortedByPath that sorts by the location string
InsertByLocation(s, e) ==
    LET n == Cardinality({ k \in 1..Len(s) :
                             ~StrLess(Location(e.path), Location(s[k].path)) })
    IN  SubSeq(s, 1, n) \o <<e>> \o SubSeq(s, n + 1, Len(s))

RECURSIVE SortedByLocation(_)
SortedByLocation(es) ==
    IF es = <<>> THEN <<>>
    ELSE InsertByLocation(SortedByLocation(SubSeq(es, 1, Len(es) - 1)), es[Len(es)])

\* e put into the sorted sequence s after every element whose key is not greater
InsertByPath(s, e) ==
    LET n == Cardinality({ k \in 1..Len(s) : ~PathLess(e.path, s[k].path) })
    IN  SubSeq(s, 1, n) \o <<e>> \o SubSeq(s, n + 1, Len(s))

\* sorted(..., key=lambda e: e.path): stable, on the errors in the order
\* iter_errors yields them
RECURSIVE SortedByPath(_)
SortedByPath(es) ==
    IF es = <<>> THEN <<>>
    ELSE InsertByPath(SortedByPath(SubSeq(es, 1, Len(es) - 1)), es[Len(es)])

\* f"No schema loaded for model_type='{model_type}'"
NoSchemaMsg(t) == [text |-> "No schema loaded for model_type=", model_type |-> t]

\* f"{location}: {error.message}"
ViolationMsg(e) == [text |-> e.message, location |-> Location(e.path)]

\* what validator.iter_errors(model_data) can do: yield a sequence of errors,
\* or, for a schema that is not a valid schema, also raise
Yields(es) == [raises |-> FALSE, errs |-> es]
Raises == [raises |-> TRUE, errs |-> <<>>]

iter_errors(validator, ViolSets) ==
    { Yields(es) : es \in ViolSets }
        \cup (IF validator.schema.valid THEN {} ELSE {Raises})

\* the mutant of validate_model that passes a document whose schema is missing
validate_model_skip_missing(t, vals, outcome) ==
    IF t \notin DOMAIN vals
    THEN <<>>
    ELSE LET sorted == SortedByPath(outcome.errs)
         IN  [k \in 1..Len(sorted) |-> ViolationMsg(sorted[k])]

\* validate_model, given what iter_errors does when it is reached
validate_model(t, vals, outcome) ==
    IF t \notin DOMAIN vals
    THEN <<NoSchemaMsg(t)>>
    ELSE LET sorted == SortedByPath(outcome.errs)
         IN  [k \in 1..Len(sorted) |-> ViolationMsg(sorted[k])]

\* the mutant of file_outcome that counts an unclassified file as failing
file_outcome_unknown_fails(t, d, errs) ==
    IF t = None THEN "failed"
    ELSE IF d = PyNone THEN "failed"
    ELSE IF errs = <<>> THEN "ok"
    ELSE "failed"

\* the mutant of file_outcome that skips a file that does not load
file_outcome_load_skips(t, d, errs) ==
    IF t = None THEN "skipped"
    ELSE IF d = PyNone THEN "skipped"
    ELSE IF errs = <<>> THEN "ok"
    ELSE "failed"

\* the branch one iteration of run_validation's loop takes
file_outcome(t, d, errs) ==
    IF t = None THEN "skipped"
    ELSE IF d = PyNone THEN "failed"
    ELSE IF errs = <<>> THEN "ok"
    ELSE "failed"

\* the mutant of exit_code that tests the passing count
exit_code_by_ok(ok_, failed_) == IF ok_ > 0 THEN 0 ELSE 1

\* main's return value
exit_code(ok_, failed_) == IF failed_ > 0 THEN 1 ELSE 0

\* names of models/v1 in the validator's runs
RunNames ==
    { S_pump \o S_us \o S_api_contract \o S_json,
      S_digital_twin \o S_json,
      S_knowledge_graph \o S_v2 \o S_json,
      S_notes \o S_json,
      S_manifest \o S_us \o S_schema \o S_json,
      Upper(S_manifest) \o S_json }

Dirs == { d \in SUBSET RunNames : Cardinality(d) <= MaxFiles }

\* what an expected schema file is in the validator's runs
RunSchemaFiles == { Missing, Json(SchemaDoc(TRUE)), Json(SchemaDoc(FALSE)) }

\* what a model file holds in the validator's runs
RunModelFiles == { Unreadable, Malformed, Json(PyNone), Json([t |-> "dict"]) }

S_name == <<"n", "a", "m", "e">>

\* the error sequences iter_errors yields in the validator's runs
RunViolSets ==
    { <<>>, <<Err(<<>>, "type")>>, <<Err(<<Key(S_name)>>, "type"), Err(<<>>, "required")>> }

InitValidate ==
    /\ pc = "start"
    /\ IdleClassifier
    /\ IdleRun
    /\ IdleValidator
    /\ IdleBuilder

\* run_validation up to its loop: discovery, the early return, the schema index
run_validation_start ==
    /\ pc = "start"
    /\ \E dir \in Dirs, sch \in [TagSet -> RunSchemaFiles] :
         LET model_files == discover_files(dir)
         IN  /\ files' = model_files
             /\ IF model_files = <<>>
                THEN /\ pc' = "returned"
                     /\ UNCHANGED <<schemas, validators>>
                ELSE /\ pc' = "loop"
                     /\ schemas' = sch
                     /\ validators' = build_schema_index(sch)
    /\ ok' = 0
    /\ failed' = 0
    /\ UNCHANGED <<model_path, model_type, idx, data, errors, exitCode, content,
                   models, manifest, entry, under_root, yielded>>

\* one iteration of run_validation's loop, and the return after the last one
\* (the singleton sets bind a value that is computed once)
run_validation_file ==
    /\ pc = "loop"
    /\ idx < Len(files)
    /\ \E c \in RunModelFiles, t \in {detect_model_type(files[idx + 1])} :
         \E d \in {IF t = None THEN Unset ELSE load_json(c)} :
           LET reached == t # None /\ d # PyNone
               outcomes == IF reached /\ t \in DOMAIN validators
                           THEN iter_errors(validators[t], RunViolSets)
                           ELSE {Yields(<<>>)}
           IN  \E outcome \in outcomes :
                 \E errs \in {IF reached THEN validate_model(t, validators, outcome)
                              ELSE <<>>} :
                   \E branch \in {file_outcome(t, d, errs)} :
                       /\ model_path' = files[idx + 1]
                       /\ model_type' = t
                       /\ content' = c
                       /\ data' = d
                       /\ idx' = idx + 1
                       /\ yielded' = outcome.errs
                       /\ IF outcome.raises
                          THEN /\ pc' = "crashed"
                               /\ UNCHANGED <<errors, ok, failed>>
                          ELSE /\ pc' = IF idx + 1 = Len(files) THEN "returned" ELSE "loop"
                               /\ errors' = errs
                               /\ ok' = IF branch = "ok" THEN ok + 1 ELSE ok
                               /\ failed' = IF branch = "failed" THEN failed + 1 ELSE failed
    /\ UNCHANGED <<files, validators, exitCode, schemas, models, manifest, entry,
                   under_root>>

\* main: the exit code from run_validation's counts
main_validate ==
    /\ pc = "returned"
    /\ pc' = "exited"
    /\ exitCode' = exit_code(ok, failed)
    /\ UNCHANGED <<model_path, model_type, files, idx, data, validators, ok, failed,
                   errors, schemas, content, models, manifest, entry, under_root, yielded>>

NextValidate == run_validation_start \/ run_validation_file \/ main_validate

SpecValidate == InitValidate /\ [][NextValidate]_vars

\* a step of run_validation's loop that processed one file and did not crash
ProcessedFile == pc = "loop" /\ idx' = idx + 1 /\ pc' # "crashed"

\* the run goes on with the remaining files, or returns after the last one
RunContinues == pc' = IF idx' < Len(files) THEN "loop" ELSE "returned"

\* C1: main's exit code is 0 if and only if run_validation's failing count is
\* 0, and is 1 otherwise.
C1_ExitCodeIffNoFailure ==
    pc = "exited" =>
        /\ exitCode \in {0, 1}
        /\ (exitCode = 0 <=> failed = 0)

\* C1 witness: a run with a passing and a failing document exits with 1.
C1_Witness == pc = "exited" /\ ok > 0 /\ failed > 0 /\ exitCode = 1

\* C2: a file classified to a type whose tag is absent from the schema index is
\* a failure: the failing count grows by one, the passing count is unchanged,
\* the run continues, and for a loaded document validate_model returns exactly
\* the one synthetic 'No schema loaded' message naming the type.
C2_MissingSchemaFails ==
    [][ (ProcessedFile /\ model_type' # None /\ model_type' \notin DOMAIN validators) =>
            /\ failed' = failed + 1
            /\ ok' = ok
            /\ RunContinues
            /\ data' # PyNone =>
                 /\ errors' = <<NoSchemaMsg(model_type')>>
                 /\ validate_model(model_type', validators, Yields(<<>>)) = errors'
      ]_vars

\* C2 witness: a loaded document of a type without schema was failed with the
\* synthetic message, and a file remains to be processed.
C2_Witness ==
    /\ pc = "loop"
    /\ idx >= 1
    /\ idx < Len(files)
    /\ model_type \in TagSet \ DOMAIN validators
    /\ data = [t |-> "dict"]
    /\ errors = <<NoSchemaMsg(model_type)>>
    /\ failed = 1
    /\ ok = 0

AllUnknown == \A k \in 1..Len(files) : detect_model_type(files[k]) = None

\* C3: a file whose name classifies as unknown changes neither count, whatever
\* it holds, and the run continues; a directory of only such files ends with
\* counts (0, 0) and exit code 0.
C3_UnknownSkipped ==
    /\ [][ (ProcessedFile /\ model_type' = None) =>
              (ok' = ok /\ failed' = failed /\ RunContinues) ]_vars
    /\ []((pc = "exited" /\ AllUnknown) => (ok = 0 /\ failed = 0 /\ exitCode = 0))

\* C3 witness: a run over unknown files only, the last one unreadable, exited
\* with counts (0, 0) and code 0.
C3_Witness ==
    /\ pc = "exited"
    /\ Len(files) = MaxFiles
    /\ AllUnknown
    /\ model_type = None
    /\ content = Unreadable
    /\ ok = 0 /\ failed = 0 /\ exitCode = 0

LoadFailed(c) == c.kind \in {"oserror", "badjson"}

\* C4 as stated: a classified file whose load fails with an I/O or a JSON
\* parse error is counted neither as passing nor as failing.
C4_Original ==
    [][ (ProcessedFile /\ model_type' # None /\ LoadFailed(content')) =>
            (ok' = ok /\ failed' = failed) ]_vars

\* C4 amended: a classified file whose load fails with an I/O or a JSON parse
\* error is counted as failing (the failing count grows by one, the passing
\* count is unchanged, no message is produced), the remaining files are still
\* processed, and the run's exit code is 1.
C4_Amended ==
    /\ [][ (ProcessedFile /\ model_type' # None /\ LoadFailed(content')) =>
              /\ data' = PyNone
              /\ failed' = failed + 1
              /\ ok' = ok
              /\ errors' = <<>>
              /\ RunContinues ]_vars
    /\ [][ failed > 0 => failed' > 0 ]_vars
    /\ []((pc = "exited" /\ failed > 0) => exitCode = 1)

\* C4 witness: the only classified file of a run did not parse, a file came
\* after it, and the run exited with 1.
C4_Witness ==
    /\ pc = "exited"
    /\ Len(files) >= 2
    /\ detect_model_type(files[1]) # None
    /\ detect_model_type(files[2]) = None
    /\ failed = 1
    /\ ok = 0
    /\ exitCode = 1

----------------------------------------------------------------------------
(* Manifest builder *)

\* Python values of a parsed JSON document
PyStr(s) == [t |-> "str", v |-> s]
PyInt(n) == [t |-> "int", v |-> n]
PyBool(b) == [t |-> "bool", v |-> b]
PyList(l) == [t |-> "list", v |-> l]
PyDict(f) == [t |-> "dict", v |-> f]

\* bool(v)
Truthy(x) ==
    CASE x.t = "none" -> FALSE
      [] x.t = "str"  -> x.v # <<>>
      [] x.t = "int"  -> x.v # 0
      [] x.t = "bool" -> x.v
      [] x.t = "list" -> x.v # <<>>
      [] x.t = "dict" -> DOMAIN x.v # {}

\* a or b
Or(a, b) == IF Truthy(a) THEN a ELSE b

\* data.get(key)
Get(d, key) == IF key \in DOMAIN d.v THEN d.v[key] ELSE PyNone

S_models == <<"m", "o", "d", "e", "l", "s", "/">>
S_abs == <<"/", "t", "m", "p", "/">>

\* str(path.relative_to(project_root)), or str(path) after its ValueError
rel_path(path, under) == IF under THEN S_models \o path ELSE S_abs \o path

\* the components of a path below the models directory
RECURSIVE PathParts(_)
PathParts(s) ==
    IF \E k \in 1..Len(s) : s[k] = "/"
    THEN LET k == CHOOSE i \in 1..Len(s) : s[i] = "/" /\ \A j \in 1..(i - 1) : s[j] # "/"
         IN  <<SubSeq(s, 1, k - 1)>> \o PathParts(SubSeq(s, k + 1, Len(s)))
    ELSE <<s>>

\* Path.name: the final component
Name(s) == PathParts(s)[Len(PathParts(s))]

\* the mutant of resolve_id that prefers model_id to id
resolve_id_model_id_first(path, d) ==
    Or(Or(Or(Get(d, "model_id"), Get(d, "id")), Get(d, "name")), PyStr(Stem(Name(path))))

\* extract_model_entry: model_id
resolve_id(path, d) ==
    Or(Or(Or(Get(d, "id"), Get(d, "model_id")), Get(d, "name")), PyStr(Stem(Name(path))))

\* the keys an entry always has
BaseEntry(path, d, under) ==
    [ id          |-> resolve_id(path, d),
      name        |-> Or(Get(d, "name"), resolve_id(path, d)),
      description |-> Or(Or(Get(d, "description"), Get(d, "summary")), PyStr(<<>>)),
      source_file |-> PyStr(rel_path(path, under)) ]

\* extract_model_entry on a dict
extract_model_entry(path, d, under) ==
    LET endpoints == Or(Or(Or(Get(d, "endpoints"), Get(d, "tools")), Get(d, "operations")),
                        PyList(<<>>))
        schema == Or(Or(Or(Get(d, "schema"), Get(d, "json_schema")), Get(d, "openapi_schema")),
                     PyNone)
        base == BaseEntry(path, d, under)
    IN  IF Truthy(endpoints) /\ schema # PyNone
        THEN [ id |-> base.id, name |-> base.name, description |-> base.description,
               source_file |-> base.source_file, endpoints |-> endpoints, schema |-> schema ]
        ELSE IF Truthy(endpoints)
        THEN [ id |-> base.id, name |-> base.name, description |-> base.description,
               source_file |-> base.source_file, endpoints |-> endpoints ]
        ELSE IF schema # PyNone
        THEN [ id |-> base.id, name |-> base.name, description |-> base.description,
               source_file |-> base.source_file, schema |-> schema ]
        ELSE base

\* data.get exists: extract_model_entry raises AttributeError on any other value
HasGet(d) == d.t = "dict"

\* Python's < on two lists of strings: what PurePath.__lt__ compares
RECURSIVE PartsLess(_, _)
PartsLess(p, q) ==
    IF q = <<>> THEN FALSE
    ELSE IF p = <<>> THEN TRUE
    ELSE IF Head(p) = Head(q) THEN PartsLess(Tail(p), Tail(q))
    ELSE StrLess(Head(p), Head(q))

\* sorted() of a set of distinct paths
RECURSIVE SortedPaths(_)
SortedPaths(S) ==
    IF S = {} THEN <<>>
    ELSE LET m == CHOOSE x \in S : \A y \in S \ {x} : PartsLess(PathParts(x), PathParts(y))
         IN  <<m>> \o SortedPaths(S \ {m})

\* the mutant of find_model_files that sorts the paths as strings
find_model_files_as_strings(dir) == SortedStrings(dir)

\* find_model_files: the *.json paths under the models directory (rglob), sorted
\* (a directory that does not exist yields the empty list, like an empty one)
find_model_files(dir) == SortedPaths(dir)

\* the mutant of make_manifest that counts the discovered files
make_manifest_count_files(ms, fs, ts) ==
    [ version |-> 1, generated_at |-> ts, model_count |-> Len(fs), models |-> ms ]

\* build_manifest: the manifest of the entries ms (fs: the discovered files)
make_manifest(ms, fs, ts) ==
    [ version |-> 1, generated_at |-> ts, model_count |-> Len(ms), models |-> ms ]

\* a key that the document does not have
Absent == [t |-> "absent"]

\* the dict of the keys of g that are not Absent
MkDict(g) == PyDict([k \in { x \in DOMAIN g : g[x] # Absent } |-> g[k]])

S_x == <<"x">>

\* values of an id, model_id or name key; s is a string of that key's own
IdValues(s) ==
    { Absent, PyNone, PyStr(<<>>), PyStr(s), PyInt(0), PyInt(7), PyBool(FALSE),
      PyBool(TRUE), PyList(<<>>), PyList(<<PyStr(s)>>), PyDict(<<>>),
      PyDict([x |-> PyStr(s)]) }

\* the documents extract_model_entry is applied to
ExtractDocs ==
    { MkDict(g) :
        g \in [ id : IdValues(<<"I">>), model_id : IdValues(<<"M">>),
                name : IdValues(<<"N">>),
                description : {Absent, PyStr(<<"d">>)},
                tools : {Absent, PyList(<<PyStr(S_x)>>)},
                schema : {Absent, PyNone, PyDict(<<>>), PyDict([type |-> PyStr(S_x)])} ] }

\* paths of files under the models directory; pump/x.json sorts before
\* pump.json as a path and after it as a string
BuilderNames ==
    { S_pump \o S_json, S_digital_twin \o S_v2 \o S_json, S_notes \o S_json,
      S_pump \o <<"/">> \o S_x \o S_json }

InitExtract ==
    /\ pc = "extract"
    /\ model_path \in BuilderNames
    /\ data \in ExtractDocs
    /\ under_root \in BOOLEAN
    /\ model_type = NoValue
    /\ files = <<>>
    /\ idx = 0
    /\ content = Unset
    /\ IdleValidator
    /\ models = <<>>
    /\ manifest = Unset
    /\ entry = Unset

Extract ==
    /\ pc = "extract"
    /\ pc' = "extracted"
    /\ entry' = extract_model_entry(model_path, data, under_root)
    /\ UNCHANGED <<model_path, model_type, files, idx, data, validators, ok, failed,
                   errors, exitCode, schemas, content, models, manifest, under_root, yielded>>

NextExtract == Extract

SpecExtract == InitExtract /\ [][NextExtract]_vars

\* what a file under the models directory holds in the builder's runs
BuilderFiles ==
    { Unreadable, Malformed, Json(PyNone),
      Json(PyList(<<PyInt(1)>>)), Json(PyStr(S_x)), Json(PyInt(7)),
      Json(PyDict(<<>>)),
      Json(PyDict([id |-> PyStr(<<"I">>), name |-> PyStr(<<"N">>)])),
      Json(PyDict([id |-> PyInt(7)])) }

BuilderDirs == { d \in SUBSET BuilderNames : Cardinality(d) <= MaxFiles }

\* datetime.now(timezone.utc).isoformat()
Timestamps == { "2026-01-01T00:00:00+00:00", "2026-01-02T00:00:00+00:00" }

InitManifest ==
    /\ pc = "start"
    /\ under_root \in BOOLEAN
    /\ IdleClassifier
    /\ IdleRun
    /\ IdleValidator
    /\ models = <<>>
    /\ manifest = Unset
    /\ entry = Unset

\* build_manifest up to its loop
build_manifest_start ==
    /\ pc = "start"
    /\ pc' = "loop"
    /\ \E dir \in BuilderDirs : files' = find_model_files(dir)
    /\ models' = <<>>
    /\ UNCHANGED <<model_path, model_type, idx, data, validators, ok, failed, errors,
                   exitCode, schemas, content, manifest, entry, under_root, yielded>>

\* the mutant of build_manifest_file in which a file that does not load
\* discards the entries collected so far
build_manifest_file_reset ==
    /\ pc = "loop"
    /\ idx < Len(files)
    /\ \E c \in BuilderFiles :
         \E d \in {load_json(c)} :
             /\ model_path' = files[idx + 1]
             /\ content' = c
             /\ data' = d
             /\ idx' = idx + 1
             /\ IF d = PyNone
                THEN models' = <<>> /\ UNCHANGED <<pc, entry>>
                ELSE IF ~HasGet(d)
                THEN pc' = "crashed" /\ UNCHANGED <<entry, models>>
                ELSE \E e \in {extract_model_entry(files[idx + 1], d, under_root)} :
                        /\ entry' = e
                        /\ models' = Append(models, e)
                        /\ UNCHANGED pc
    /\ UNCHANGED <<model_type, files, validators, ok, failed, errors, exitCode,
                   schemas, manifest, under_root, yielded>>

\* one iteration of build_manifest's loop
build_manifest_file ==
    /\ pc = "loop"
    /\ idx < Len(files)
    /\ \E c \in BuilderFiles :
         \E d \in {load_json(c)} :
             /\ model_path' = files[idx + 1]
             /\ content' = c
             /\ data' = d
             /\ idx' = idx + 1
             /\ IF d = PyNone
                THEN UNCHANGED <<pc, entry, models>>
                ELSE IF ~HasGet(d)
                THEN pc' = "crashed" /\ UNCHANGED <<entry, models>>
                ELSE \E e \in {extract_model_entry(files[idx + 1], d, under_root)} :
                        /\ entry' = e
                        /\ models' = Append(models, e)
                        /\ UNCHANGED pc
    /\ UNCHANGED <<model_type, files, validators, ok, failed, errors, exitCode,
                   schemas, manifest, under_root, yielded>>

\* build_manifest after its loop: the manifest is assembled and returned
build_manifest_return ==
    /\ pc = "loop"
    /\ idx = Len(files)
    /\ pc' = "built"
    /\ \E ts \in Timestamps : manifest' = make_manifest(models, files, ts)
    /\ UNCHANGED <<model_path, model_type, files, idx, data, validators, ok, failed,
                   errors, exitCode, schemas, content, models, entry, under_root, yielded>>

\* main of generate_manifest.py: the manifest is written (to an output path
\* that can be written) and 0 is returned
main_manifest ==
    /\ pc = "built"
    /\ pc' = "exited"
    /\ exitCode' = 0
    /\ UNCHANGED <<model_path, model_type, files, idx, data, validators, ok, failed,
                   errors, schemas, content, models, manifest, entry, under_root, yielded>>

NextManifest ==
    build_manifest_start \/ build_manifest_file \/ build_manifest_return \/ main_manifest

SpecManifest == InitManifest /\ [][NextManifest]_vars

\* the file's base name (the path after its last "/") without its ".json"
BaseName(path) ==
    LET slashes == { k \in 1..Len(path) : path[k] = "/" }
        from == IF slashes = {} THEN 1
                ELSE 1 + CHOOSE k \in slashes : \A j \in slashes : j <= k
    IN  SubSeq(path, from, Len(path) - Len(S_json))

\* a value that is present and not empty: not null, "", 0, false, [] or {}
NonEmpty(x) ==
    /\ x # PyNone
    /\ x \notin {PyStr(<<>>), PyList(<<>>), PyDict(<<>>), PyInt(0), PyBool(FALSE)}

\* the document's id, model_id and name, in the order of the fallback chain
IdCandidates(d) == <<Get(d, "id"), Get(d, "model_id"), Get(d, "name")>>

NonEmptyCandidates(d) == { k \in 1..3 : NonEmpty(IdCandidates(d)[k]) }

\* C7: the manifest builder never fails the process: whatever the models
\* directory holds, the whole file list is processed, the manifest is written
\* and main returns 0.
C7_BuilderNeverFails ==
    /\ pc # "crashed"
    /\ pc = "exited" => (idx = Len(files) /\ manifest # Unset /\ exitCode = 0)

\* C8: the entry's id is the first non-empty value among the document's id,
\* model_id and name, in that order, and the file's base name without extension
\* when none of them is present and non-empty; the entry's name is the
\* document's name when non-empty, else the resolved id.
C8_IdFallbackChain ==
    pc = "extracted" =>
        /\ entry.id =
             IF NonEmptyCandidates(data) = {} THEN PyStr(BaseName(model_path))
             ELSE IdCandidates(data)[CHOOSE k \in NonEmptyCandidates(data) :
                                        \A j \in NonEmptyCandidates(data) : k <= j]
        /\ entry.name = IF NonEmpty(Get(data, "name")) THEN Get(data, "name") ELSE entry.id

\* C8 witness: a document with an empty id and a model_id gets the model_id as
\* its id and its own name as its name.
C8_Witness ==
    /\ pc = "extracted"
    /\ Get(data, "id") = PyStr(<<>>)
    /\ entry.id = PyStr(<<"M">>)
    /\ entry.name = PyStr(<<"N">>)

\* C8 witness of the fallback: a document without id, model_id and name gets
\* the file's base name as id and as name.
C8_FallbackReached ==
    /\ pc = "extracted"
    /\ NonEmptyCandidates(data) = {}
    /\ entry.id = PyStr(S_digital_twin \o S_v2)
    /\ entry.name = entry.id

\* C9: every entry's id and name are non-empty strings, for any document
\* content.
C9_IdAndNameAreStrings ==
    pc = "extracted" =>
        /\ entry.id.t = "str" /\ entry.id.v # <<>>
        /\ entry.name.t = "str" /\ entry.name.v # <<>>

\* C10: in every manifest build_manifest returns, model_count is the length of
\* models (0 and the empty sequence when no file was discovered).
C10_CountIsLength ==
    pc \in {"built", "exited"} =>
        /\ manifest.model_count = Len(manifest.models)
        /\ manifest.models = models
        /\ files = <<>> => (manifest.model_count = 0 /\ manifest.models = <<>>)

\* C10 witness: a manifest of a run in which one file loaded and one did not.
C10_Witness ==
    /\ pc = "built"
    /\ Len(files) = 2
    /\ manifest.model_count = 1
    /\ Len(manifest.models) = 1

----------------------------------------------------------------------------
(* Schema index builder, on its own *)

\* what an expected schema file can be: missing, unreadable, not JSON, the
\* JSON null, a valid schema document, a JSON document that is no valid schema
AllSchemaFiles ==
    { Missing, Unreadable, Malformed, Json(PyNone),
      Json(SchemaDoc(TRUE)), Json(SchemaDoc(FALSE)) }

InitIndex ==
    /\ pc = "index"
    /\ schemas \in [TagSet -> AllSchemaFiles]
    /\ validators = <<>>
    /\ ok = 0
    /\ failed = 0
    /\ errors = <<>>
    /\ yielded = <<>>
    /\ exitCode = NoValue
    /\ IdleClassifier
    /\ IdleRun
    /\ IdleBuilder

\* build_schema_index(schemas_dir)
BuildIndex ==
    /\ pc = "index"
    /\ pc' = "indexed"
    /\ validators' = build_schema_index(schemas)
    /\ UNCHANGED <<model_path, model_type, files, idx, data, ok, failed, errors,
                   exitCode, schemas, content, models, manifest, entry, under_root, yielded>>

NextIndex == BuildIndex

SpecIndex == InitIndex /\ [][NextIndex]_vars

\* C11: the index holds a tag if and only if the tag's schema file exists,
\* loads as JSON and is a valid schema document; a file that loads but is no
\* valid schema is excluded from the index.
C11_IndexIffValidSchema ==
    pc = "indexed" =>
        \A tag \in TagSet :
            tag \in DOMAIN validators <=> schemas[tag] = Json(SchemaDoc(TRUE))

----------------------------------------------------------------------------
(* extract_model_entry on documents that differ in their schema keys *)

\* values of a schema, json_schema or openapi_schema key; s is a string of that
\* key's own
SchemaValues(s) ==
    { Absent, PyNone, PyDict(<<>>), PyDict([type |-> PyStr(s)]), PyBool(FALSE), PyStr(<<>>) }

SchemaDocs ==
    { MkDict(g) :
        g \in [ id : {Absent, PyStr(<<"I">>)},
                schema : SchemaValues(<<"S">>),
                json_schema : SchemaValues(<<"J">>),
                openapi_schema : SchemaValues(<<"O">>) ] }

InitSchemaPayload ==
    /\ pc = "extract"
    /\ model_path \in BuilderNames
    /\ data \in SchemaDocs
    /\ under_root \in BOOLEAN
    /\ model_type = NoValue
    /\ files = <<>>
    /\ idx = 0
    /\ content = Unset
    /\ IdleValidator
    /\ models = <<>>
    /\ manifest = Unset
    /\ entry = Unset

SpecSchemaPayload == InitSchemaPayload /\ [][NextExtract]_vars

\* the document's schema, json_schema and openapi_schema, in the chain's order
SchemaCandidates(d) ==
    <<Get(d, "schema"), Get(d, "json_schema"), Get(d, "openapi_schema")>>

NonNullCandidates(d) == { k \in 1..3 : SchemaCandidates(d)[k] # PyNone }

\* C12: the entry's schema payload is the first non-null value among the
\* document's schema, json_schema and openapi_schema, and the entry has a
\* schema key exactly when one of the three is present and not null; a schema
\* that is non-null but empty is that payload.
C12_FirstNonNullSchema ==
    pc = "extracted" =>
        /\ "schema" \in DOMAIN entry <=> NonNullCandidates(data) # {}
        /\ NonNullCandidates(data) # {} =>
             /\ "schema" \in DOMAIN entry
             /\ entry.schema =
                  SchemaCandidates(data)[CHOOSE k \in NonNullCandidates(data) :
                                            \A j \in NonNullCandidates(data) : k <= j]

----------------------------------------------------------------------------
(* The builder's entries against its file list *)

\* a step of build_manifest's loop that processed one file and did not raise
BuiltFile == pc = "loop" /\ idx' = idx + 1 /\ pc' # "crashed"

\* the entry's source_file is that of the file at position k of the list
EntryOfFile(e, k) == e.source_file = PyStr(rel_path(files[k], under_root))

\* the position in the file list of the file an entry was made from
FileIndex(e) == CHOOSE k \in 1..Len(files) : EntryOfFile(e, k)

\* every entry is of a file of the list, and the entries are in the files' order
InFileOrder(ms) ==
    /\ \A i \in 1..Len(ms) : \E k \in 1..Len(files) : EntryOfFile(ms[i], k)
    /\ \A i, j \in 1..Len(ms) : i < j => FileIndex(ms[i]) < FileIndex(ms[j])

\* the discovery list is sorted: strictly increasing as paths
FilesSorted ==
    \A i, j \in 1..Len(files) :
        i < j => PartsLess(PathParts(files[i]), PathParts(files[j]))

\* C13: a file that loads adds exactly one entry, its own, after the entries
\* collected so far; a file whose load fails with a parse or an I/O error adds
\* none, removes none and does not end the loop; so the models of a generated
\* manifest are the entries of the loaded files in the order of the sorted
\* discovery list.
C13_OneEntryPerLoadedFileInOrder ==
    /\ [][ (BuiltFile /\ data' # PyNone) =>
              /\ models' = Append(models, entry')
              /\ EntryOfFile(entry', idx')
              /\ pc' = "loop" ]_vars
    /\ [][ (pc = "loop" /\ idx' = idx + 1 /\ LoadFailed(content')) =>
              /\ data' = PyNone
              /\ models' = models
              /\ pc' = "loop" ]_vars
    /\ [](pc \in {"loop", "built", "exited"} => (FilesSorted /\ InFileOrder(models)))
    /\ [](pc \in {"built", "exited"} => (idx = Len(files) /\ manifest.models = models))

\* C13 witness: a manifest whose only entry is of the second file, the first
\* file having failed to load; the two files sort differently as strings.
C13_Witness ==
    /\ pc = "built"
    /\ Len(files) = 2
    /\ Len(manifest.models) = 1
    /\ EntryOfFile(manifest.models[1], 2)
    /\ StrLess(files[2], files[1])

----------------------------------------------------------------------------
(* validate_model on a document with a compiled schema, on its own *)

MaxErrors == 3

S_items == <<"i", "t", "e", "m", "s">>

\* the document under validation: a JSON object or a JSON array
SortDocs == { [t |-> "dict"], [t |-> "list"] }

\* paths of violations in a document: the root, keys and nested array indices
\* of an object, indices and a nested key of an array
PathsIn(d) ==
    IF d.t = "dict"
    THEN { <<>>, <<Key(S_items)>>, <<Key(S_items), Index(2)>>,
           <<Key(S_items), Index(10)>>, <<Key(S_name)>> }
    ELSE { <<>>, <<Index(0)>>, <<Index(10)>>, <<Index(2), Key(S_name)>> }

\* error.message
Messages == { "required", "type" }

\* the sequences of errors iter_errors can yield for a document
ErrSeqs(d) ==
    UNION { [1..n -> { Err(p, m) : p \in PathsIn(d), m \in Messages }] :
              n \in 0..MaxErrors }

InitSort ==
    /\ pc = "validate"
    /\ model_type \in TagSet
    /\ data \in SortDocs
    /\ schemas = [tag \in TagSet |-> Json(SchemaDoc(TRUE))]
    /\ validators = build_schema_index(schemas)
    /\ model_path = <<>>
    /\ files = <<>>
    /\ idx = 0
    /\ content = Unset
    /\ ok = 0
    /\ failed = 0
    /\ errors = <<>>
    /\ yielded = <<>>
    /\ exitCode = NoValue
    /\ IdleBuilder

\* validate_model(model_data, model_type, validators)
ValidateModel ==
    /\ pc = "validate"
    /\ \E outcome \in iter_errors(validators[model_type], ErrSeqs(data)) :
         /\ yielded' = outcome.errs
         /\ IF outcome.raises
            THEN pc' = "crashed" /\ UNCHANGED errors
            ELSE /\ pc' = "validated"
                 /\ errors' = validate_model(model_type, validators, outcome)
    /\ UNCHANGED <<model_path, model_type, files, idx, data, validators, ok, failed,
                   exitCode, schemas, content, models, manifest, entry, under_root>>

NextSort == ValidateModel

SpecSort == InitSort /\ [][NextSort]_vars

\* C14 as stated: the location strings of the returned messages are in
\* non-decreasing order as strings.
C14_Original ==
    pc = "validated" =>
        \A i, j \in 1..Len(errors) :
            i < j => ~StrLess(errors[j].location, errors[i].location)

\* C14: the returned messages are those of the yielded errors, one each,
\* ordered by the errors' paths compared element by element (keys as strings,
\* indices as numbers, a path before its extensions, the root first); errors
\* at the same path keep the order in which they were yielded.
C14_Amended ==
    pc = "validated" =>
        /\ Len(errors) = Len(yielded)
        /\ \E f \in Permutations(1..Len(yielded)) :
             /\ \A k \in 1..Len(yielded) : errors[k] = ViolationMsg(yielded[f[k]])
             /\ \A i, j \in 1..Len(yielded) :
                  i < j =>
                    /\ ~PathLess(yielded[f[j]].path, yielded[f[i]].path)
                    /\ yielded[f[i]].path = yielded[f[j]].path => f[i] < f[j]

\* C14 witness: violations yielded at items/10, items/2 and the root come back
\* as <root>, items/2, items/10.
C14_Witness ==
    /\ pc = "validated"
    /\ Len(yielded) = 3
    /\ yielded[1].path = <<Key(S_items), Index(10)>>
    /\ yielded[2].path = <<Key(S_items), Index(2)>>
    /\ yielded[3].path = <<>>
    /\ errors[1].location = S_root
    /\ errors[2].location = S_items \o <<"/", "2">>
    /\ errors[3].location = S_items \o <<"/", "1", "0">>

====
